---------------------------- MODULE Spec2Model ----------------------------
(***************************************************************************)
(* A model of the airplane game: the Airplane flight model                 *)
(* (entities/Airplane.tsx), the Obstacle collision boxes                   *)
(* (entities/Obstacle.tsx) and the AirplaneGame component that owns the    *)
(* frame loop, the phase state machine, the obstacle set and the score.    *)
(*                                                                         *)
(* Numbers.  The program computes in IEEE doubles.  The model computes in  *)
(* fixed point: an integer n stands for the real n / Unit, and a product   *)
(* is rounded toward zero to the nearest 1/Unit.  Unit = 3600 makes the    *)
(* frame times 1/60 s and 1/10 s and every constant of the flight model    *)
(* exact.  Math.sin / Math.cos are their Taylor polynomials up to x^7     *)
(* after range reduction.                                                  *)
(***************************************************************************)
EXTENDS Integers, Sequences, FiniteSets, TLC

Unit == 60 * 60

\* F applied to the value of v: v is evaluated once, however often F reads it
With(v, F(_)) == CHOOSE r \in {F(x) : x \in {v}} : TRUE

Abs(x) == IF x < 0 THEN -x ELSE x
Min(a, b) == IF a < b THEN a ELSE b
Max(a, b) == IF a > b THEN a ELSE b

\* a * b of two fixed-point numbers, rounded toward zero
Mul(a, b) == With(a * b, LAMBDA p : IF p >= 0 THEN p \div Unit ELSE -((-p) \div Unit))

\* a / b of two fixed-point numbers (a >= 0, b > 0), rounded toward zero
Div(a, b) == (a \div b) * Unit + ((a % b) * Unit) \div b

\* n / k for a fixed-point n and a positive integer k, rounded toward zero
Quot(n, k) == With(n, LAMBDA p : IF p >= 0 THEN p \div k ELSE -((-p) \div k))

\* Math.PI
Pi == (355 * Unit) \div 113

\* the angle x brought into (-Pi, Pi]
WrapAngle(x) == With(x % (2 * Pi), LAMBDA m : IF m > Pi THEN m - 2 * Pi ELSE m)

\* the Taylor polynomial of sin on [-Pi/2, Pi/2]
SinPoly(x) ==
    With(Mul(x, x), LAMBDA x2 :
    With(Quot(Mul(x, x2), 6), LAMBDA t3 :
    With(Quot(Mul(t3, x2), 20), LAMBDA t5 :
        x - t3 + t5 - Quot(Mul(t5, x2), 42))))

\* Math.sin
Sin(x) ==
    With(WrapAngle(x), LAMBDA w :
        IF w > Pi \div 2 THEN SinPoly(Pi - w)
        ELSE IF w < -(Pi \div 2) THEN SinPoly(-Pi - w)
        ELSE SinPoly(w))

\* Math.cos
Cos(x) == Sin(x + Pi \div 2)

Vec(x, y, z) == [x |-> x, y |-> y, z |-> z]

\* THREE.Vector3.add(v.clone().multiplyScalar(dt))
AddScaled(p, v, dt) == Vec(p.x + Mul(v.x, dt), p.y + Mul(v.y, dt), p.z + Mul(v.z, dt))

(***************************************************************************)
(* Airplane (entities/Airplane.tsx)                                        *)
(***************************************************************************)
MAX_SPEED == 30 * Unit
BOOST_SPEED == 50 * Unit
ROTATION_SPEED == 2 * Unit
TILT_FACTOR == (3 * Unit) \div 10
TAKEOFF_SPEED == 20 * Unit

\* the runway reference height, 0.5
GroundY == Unit \div 2
\* the gravity constant of the takeoff update, 9.8
Gravity == (98 * Unit) \div 10
\* Math.PI / 4, the pitch and roll limit
MaxTilt == Pi \div 4

NoControls == [up |-> FALSE, down |-> FALSE, left |-> FALSE, right |-> FALSE, boost |-> FALSE]

\* An airplane is a record [position, rotation, velocity, controls]:
\* mesh.position, mesh.rotation (Euler angles, order XYZ), velocity, controls.

\* a takeoff update that adds the acceleration to velocity.z
TakeoffVelocityZAdded(a, dt) ==
    Min(0, a.velocity.z + Mul(IF a.controls.boost THEN 10 * Unit ELSE -(5 * Unit), dt))

\* a takeoff update without the clamp on velocity.z
TakeoffVelocityZUnclamped(a, dt) ==
    a.velocity.z - Mul(IF a.controls.boost THEN 10 * Unit ELSE -(5 * Unit), dt)

\* updateTakeoff, "Update velocity based on acceleration" and the clamp that
\* prevents going backwards: the new velocity.z
TakeoffVelocityZ(a, dt) ==
    Min(0, a.velocity.z - Mul(IF a.controls.boost THEN 10 * Unit ELSE -(5 * Unit), dt))

\* a takeoff update that honours pitch-down as well
TakeoffPitchBothWays(a, dt, currentSpeed) ==
    IF currentSpeed > TAKEOFF_SPEED \div 2
    THEN Min(Max(a.rotation.x
                    - (IF a.controls.up
                       THEN Mul(Mul(ROTATION_SPEED, Unit \div 2), dt) ELSE 0)
                    + (IF a.controls.down
                       THEN Mul(Mul(ROTATION_SPEED, Unit \div 2), dt) ELSE 0),
                 -MaxTilt), MaxTilt)
    ELSE a.rotation.x

\* a takeoff update that honours pitch-up at any speed
TakeoffPitchAnySpeed(a, dt, currentSpeed) ==
    IF a.controls.up
    THEN Max(a.rotation.x - Mul(Mul(ROTATION_SPEED, Unit \div 2), dt), -MaxTilt)
    ELSE a.rotation.x

\* updateTakeoff, "Allow pitch control only if speed is sufficient": the new rotation.x
TakeoffPitch(a, dt, currentSpeed) ==
    IF currentSpeed > TAKEOFF_SPEED \div 2 /\ a.controls.up
    THEN Max(a.rotation.x - Mul(Mul(ROTATION_SPEED, Unit \div 2), dt), -MaxTilt)
    ELSE a.rotation.x

\* a takeoff update without lift: gravity while moving, zero when stationary
TakeoffVelocityYNoLift(a, dt, currentSpeed, rx) ==
    IF currentSpeed > Unit \div 10 THEN a.velocity.y - Mul(Gravity, dt) ELSE 0

\* updateTakeoff, lift and gravity while moving, and the reset of the vertical
\* velocity when stationary: the new velocity.y
TakeoffVelocityY(a, dt, currentSpeed, rx) ==
    IF currentSpeed > Unit \div 10
    THEN (IF currentSpeed > TAKEOFF_SPEED \div 2
          THEN a.velocity.y
               + Mul(Mul(Mul(Div(currentSpeed, TAKEOFF_SPEED), Sin(-rx)), 5 * Unit), dt)
          ELSE a.velocity.y)
         - Mul(Gravity, dt)
    ELSE 0

\* a takeoff update that puts a stationary airplane on the runway from any altitude
TakeoffPositionAlwaysSnaps(a, dt, currentSpeed, vel) ==
    IF currentSpeed > Unit \div 10
    THEN AddScaled(a.position, vel, dt)
    ELSE [a.position EXCEPT !.y = GroundY]

\* updateTakeoff, "Update position" while moving and the snap to the runway
\* when stationary: the new position
TakeoffPosition(a, dt, currentSpeed, vel) ==
    IF currentSpeed > Unit \div 10
    THEN AddScaled(a.position, vel, dt)
    ELSE IF Abs(a.position.y - GroundY) < Unit \div 10
         THEN [a.position EXCEPT !.y = GroundY]
         ELSE a.position

\* updateTakeoff up to its final ground clamp
TakeoffPhysics(a, dt) ==
    With(TakeoffVelocityZ(a, dt), LAMBDA vz :
    With(TakeoffPitch(a, dt, -vz), LAMBDA rx :
    With(Vec(a.velocity.x, TakeoffVelocityY(a, dt, -vz, rx), vz), LAMBDA vel :
        [a EXCEPT !.position = TakeoffPosition(a, dt, -vz, vel),
                  !.velocity = vel,
                  !.rotation.x = rx])))

\* a takeoff update without the ground clamp
GroundClampNone(a) == a

\* "Prevent going below the ground"
GroundClamp(a) ==
    IF a.position.y < GroundY /\ a.velocity.y < 0
    THEN [a EXCEPT !.position.y = GroundY, !.velocity.y = 0]
    ELSE a

\* Airplane.updateTakeoff(deltaTime)
UpdateTakeoff(a, dt) == With(TakeoffPhysics(a, dt), LAMBDA b : GroundClamp(b))


\* a flight update without the bank smoothing
BankSmoothingNone(a, dt) == a

\* the end of Airplane.update: the bank smoothing,
\* rotation.z = THREE.MathUtils.lerp(rotation.z, targetBankZ, deltaTime * 2)
BankSmoothing(a, dt) ==
    [a EXCEPT !.rotation.z =
        Mul(Unit - 2 * dt, a.rotation.z)
        + Mul(2 * dt, IF a.controls.left THEN TILT_FACTOR
                      ELSE IF a.controls.right THEN -TILT_FACTOR ELSE 0)]

\* a flight update without the rotation limit
LimitRotationNone(r) == r

\* "Limit rotation": Math.max(Math.min(r, Math.PI / 4), -Math.PI / 4)
LimitRotation(r) == Max(Min(r, MaxTilt), -MaxTilt)

\* new THREE.Vector3(0, 0, -1).applyQuaternion(mesh.quaternion): the third column
\* of the rotation matrix of the Euler angles (order XYZ), negated
Direction(rot) ==
    With(Cos(rot.y), LAMBDA cy :
        Vec(-Sin(rot.y), Mul(Sin(rot.x), cy), -Mul(Cos(rot.x), cy)))

\* Airplane.update, "Apply controls" and "Limit rotation": the new rotation
Steer(a, dt) ==
    With(Mul(ROTATION_SPEED, dt), LAMBDA step :
    With(Mul(Mul(ROTATION_SPEED, Unit \div 2), dt), LAMBDA yawStep :
        Vec(LimitRotation(a.rotation.x - (IF a.controls.up THEN step ELSE 0)
                                       + (IF a.controls.down THEN step ELSE 0)),
            a.rotation.y + (IF a.controls.left THEN yawStep ELSE 0)
                         - (IF a.controls.right THEN yawStep ELSE 0),
            LimitRotation(a.rotation.z + (IF a.controls.left THEN step ELSE 0)
                                       - (IF a.controls.right THEN step ELSE 0)))))

\* Airplane.update, "Set velocity based on direction and speed"
FlightVelocity(rot, boost) ==
    With(Direction(rot), LAMBDA d :
    With(IF boost THEN BOOST_SPEED ELSE MAX_SPEED, LAMBDA targetSpeed :
        Vec(Mul(d.x, targetSpeed), Mul(d.y, targetSpeed), Mul(d.z, targetSpeed))))

\* a flight update with inertia: the velocity moves halfway to direction * speed
UpdateWithInertia(a, dt) ==
    With(Steer(a, dt), LAMBDA rot :
    With(FlightVelocity(rot, a.controls.boost), LAMBDA target :
    With(Vec((a.velocity.x + target.x) \div 2, (a.velocity.y + target.y) \div 2,
             (a.velocity.z + target.z) \div 2), LAMBDA vel :
        BankSmoothing([a EXCEPT !.position = AddScaled(a.position, vel, dt),
                                !.velocity = vel,
                                !.rotation = rot], dt))))

\* a flight update with the ground clamp of the takeoff update
UpdateWithGroundClamp(a, dt) ==
    With(Steer(a, dt), LAMBDA rot :
    With(FlightVelocity(rot, a.controls.boost), LAMBDA vel :
        GroundClamp(BankSmoothing([a EXCEPT !.position = AddScaled(a.position, vel, dt),
                                            !.velocity = vel,
                                            !.rotation = rot], dt))))

\* Airplane.update(deltaTime), the flight update
Update(a, dt) ==
    With(Steer(a, dt), LAMBDA rot :
    With(FlightVelocity(rot, a.controls.boost), LAMBDA vel :
        BankSmoothing([a EXCEPT !.position = AddScaled(a.position, vel, dt),
                                !.velocity = vel,
                                !.rotation = rot], dt)))

\* new Airplane(scene) as the init effect and restartGame place it:
\* position (0, 0.5, 0), rotation (0, PI, 0), velocity 0
StartPosition == Vec(0, GroundY, 0)
StartRotation == Vec(0, Pi, 0)
ZeroVector == Vec(0, 0, 0)

NewAirplane ==
    [position |-> StartPosition, rotation |-> StartRotation,
     velocity |-> ZeroVector, controls |-> NoControls]

\* the largest n with n * n <= k
RECURSIVE Root(_, _, _)
Root(k, lo, hi) ==
    IF lo >= hi THEN lo
    ELSE LET mid == (lo + hi + 1) \div 2
         IN  IF mid * mid <= k THEN Root(k, mid, hi) ELSE Root(k, lo, mid - 1)

\* THREE.Vector3.length(), of the components cut to 1/60, rounded down to 1/60
Length(v) ==
    With(Vec(Quot(v.x, 60), Quot(v.y, 60), Quot(v.z, 60)), LAMBDA u :
        60 * Root(u.x * u.x + u.y * u.y + u.z * u.z, 0, 30000))

(***************************************************************************)
(* Obstacle (entities/Obstacle.tsx) and the vehicle's bounding box         *)
(***************************************************************************)
\* Math.random(): a generator whose state is the index rng into one period
\* of its output.  The table holds values of [0, 1).
RandomTable ==
    << Unit \div 2, 0, 0, (9 * Unit) \div 10, Unit \div 2, Unit \div 10, (3 * Unit) \div 4 >>

Random(i) == RandomTable[(i % Len(RandomTable)) + 1]

\* new Obstacle(new THREE.Vector3(x, y, z)) with createMountain's cone: the
\* draws are, in order, x, y, z, the cone's height and its radius.
\* zNear and zSpread are the longitudinal offset and its random part.
NewObstacle(planeZ, zNear, zSpread, i) ==
    [position |-> Vec(Mul(Random(i), 60 * Unit) - 30 * Unit,
                      Mul(Random(i + 1), 20 * Unit) + 10 * Unit,
                      planeZ - zNear - Mul(Random(i + 2), zSpread)),
     height |-> Mul(Random(i + 3), 15 * Unit) + 10 * Unit,
     radius |-> Mul(Random(i + 4), 10 * Unit) + 5 * Unit]

\* THREE.Box3.setFromObject(obstacle.mesh): the cone (8 radial segments, turned
\* upside down) centred on the obstacle's position
ObstacleBox(o) ==
    [min |-> Vec(o.position.x - o.radius, o.position.y - Quot(o.height, 2), o.position.z - o.radius),
     max |-> Vec(o.position.x + o.radius, o.position.y + Quot(o.height, 2), o.position.z + o.radius)]

\* The extents of the airplane group about its position: the wings (7 wide),
\* the wheels below (0.8 + 0.4) and the stabilizer above (0.5 + 0.5), the
\* fuselage and the exhaust particles behind (up to 4).
PlaneHalfWidth == (7 * Unit) \div 2
PlaneBelow == (12 * Unit) \div 10
PlaneAbove == Unit
PlaneHalfLength == 4 * Unit

\* new THREE.Box3().setFromObject(airplane.mesh), for a level airplane: the
\* box of a pitched or banked airplane differs by the tilt of these extents
AirplaneBox(p) ==
    [min |-> Vec(p.x - PlaneHalfWidth, p.y - PlaneBelow, p.z - PlaneHalfLength),
     max |-> Vec(p.x + PlaneHalfWidth, p.y + PlaneAbove, p.z + PlaneHalfLength)]

\* THREE.Box3.intersectsBox
IntersectsBox(a, b) ==
    ~(\/ b.max.x < a.min.x \/ b.min.x > a.max.x
      \/ b.max.y < a.min.y \/ b.min.y > a.max.y
      \/ b.max.z < a.min.z \/ b.min.z > a.max.z)

\* Collectible.checkCollision's volume for the airplane, new THREE.Sphere(
\* object.position, 1.5), tested against a box: the squared distance from p to
\* the box is at most 1.5 squared (distances beyond 2 count as 2)
SphereRadius == (3 * Unit) \div 2

AxisGap(lo, hi, c) == Min(Max(Max(lo - c, c - hi), 0), 2 * Unit)

SphereIntersectsBox(b, p) ==
    With(AxisGap(b.min.x, b.max.x, p.x), LAMBDA dx :
    With(AxisGap(b.min.y, b.max.y, p.y), LAMBDA dy :
    With(AxisGap(b.min.z, b.max.z, p.z), LAMBDA dz :
        dx * dx + dy * dy + dz * dz <= SphereRadius * SphereRadius)))

\* an obstacle test against the sphere of radius 1.5 about the airplane's position
CheckCollisionSphere(o, p) == SphereIntersectsBox(ObstacleBox(o), p)

\* Obstacle.checkCollision(airplane.mesh)
CheckCollision(o, p) == IntersectsBox(ObstacleBox(o), AirplaneBox(p))

\* an update that moves the obstacle toward the start of the runway, 10 per second
ObstacleUpdateDrifts(o, dt) == [o EXCEPT !.position.z = @ + Mul(10 * Unit, dt)]

\* Obstacle.update(deltaTime): boundingBox.setFromObject(mesh).  The box is a
\* function of the mesh (ObstacleBox), and the mesh is not touched.
ObstacleUpdate(o, dt) == o


(***************************************************************************)
(* StatsMonitor: the effect that counts frames.  Times are milliseconds of *)
(* performance.now(); a frame request is the handle requestAnimationFrame  *)
(* returned, and `requests` holds the handles the browser has yet to run.  *)
(***************************************************************************)
\* window.innerWidth < 768
IsMobileWidth(width) == width < 768

\* Math.round(frameCount * 1000 / elapsed), for elapsed > 0
RoundFps(frameCount, elapsed) ==
    (2 * frameCount * 1000 + elapsed) \div (2 * elapsed)

\* the innerWidth the components are mounted with
MountWidth == 1024

\* The state when the effect has run: frameCount = 0, lastTime = now,
\* handleResize() has been called, and frameId holds the first request.
NewStats ==
    [mounted |-> TRUE, fps |-> 0,
     isMobile |-> IsMobileWidth(MountWidth),
     frameCount |-> 0, lastTime |-> 0, now |-> 0,
     frameId |-> 1, requests |-> {1}, issued |-> 1, op |-> "mount"]

\* updateFPS, run by the browser for the request h, gap ms after the previous
\* callback (or the mount).  setFps on an unmounted component changes nothing.
\* The handle of the request it registers is dropped.
UpdateFPS(s, h, gap) ==
    With(s.now + gap, LAMBDA currentTime :
      With(s.frameCount + 1, LAMBDA count :
        With(currentTime - s.lastTime >= 1000, LAMBDA due :
          [s EXCEPT !.now = currentTime,
                    !.fps = IF due /\ s.mounted
                            THEN RoundFps(count, currentTime - s.lastTime) ELSE @,
                    !.frameCount = IF due THEN 0 ELSE count,
                    !.lastTime = IF due THEN currentTime ELSE @,
                    !.requests = (@ \ {h}) \cup {s.issued + 1},
                    !.issued = @ + 1,
                    !.op = "updateFPS"])))

\* the effect's cleanup: removeEventListener, cancelAnimationFrame(frameId)
StatsCleanup(s) ==
    [s EXCEPT !.mounted = FALSE, !.requests = @ \ {s.frameId}, !.op = "unmount"]

(***************************************************************************)
(* ControlBox: the effect that shows the box and hides it after            *)
(* visibilityDuration ms.  A timer is the handle setTimeout returned with  *)
(* the time it is due; `timeout` is the effect's variable of that name     *)
(* (0 while it is unassigned).                                             *)
(***************************************************************************)
\* the visibilityDuration prop: its default, and the value AirplaneGame passes
visibilityDuration == 5000

\* showControls without its clearTimeout
ShowControlsKeepsTimer(b) ==
    IF ~b.alwaysVisible
    THEN [b EXCEPT !.visible = TRUE,
                   !.timers = @ \cup {[id |-> b.issued + 1,
                                       due |-> b.now + visibilityDuration]},
                   !.timeout = b.issued + 1,
                   !.issued = @ + 1]
    ELSE [b EXCEPT !.visible = TRUE]

\* showControls()
ShowControls(b) ==
    IF ~b.alwaysVisible
    THEN [b EXCEPT !.visible = TRUE,
                   !.timers = {t \in @ : t.id # b.timeout}
                                 \cup {[id |-> b.issued + 1,
                                        due |-> b.now + visibilityDuration]},
                   !.timeout = b.issued + 1,
                   !.issued = @ + 1]
    ELSE [b EXCEPT !.visible = TRUE]

\* The state when the effect has run with the prop alwaysVisible: the
\* listeners are attached, handleResize() and showControls() have been called.
\* `shown` is the time of the last call of showControls and `events` counts
\* the mousemove and keydown events handled.
NewBox(alwaysVisible) ==
    ShowControls([mounted |-> TRUE, alwaysVisible |-> alwaysVisible,
                  visible |-> TRUE, minimized |-> FALSE,
                  isMobile |-> IsMobileWidth(MountWidth),
                  timeout |-> 0, timers |-> {}, issued |-> 0,
                  now |-> 0, shown |-> 0, events |-> 0, op |-> "mount"])

\* the effect's cleanup: removeEventListener, clearTimeout(timeout)
BoxCleanup(b) ==
    [b EXCEPT !.mounted = FALSE,
              !.timers = {t \in @ : t.id # b.timeout},
              !.op = "unmount"]

(***************************************************************************)
(* AirplaneGame: the component state and its handlers                      *)
(***************************************************************************)
VARIABLES
    airplane,   \* airplaneRef.current: position, rotation, velocity, controls
    obstacles,  \* obstaclesRef.current, in array order
    gameState,  \* the component's React state
    frameId,    \* frameIdRef.current: the handle of the pending frame request
    rng,        \* the state of Math.random()
    camera,     \* cameraRef.current: its position, and the point it was last
                \* turned to (target)
    resources,  \* the obstacles' three.js resources: how many obstacles have
                \* been constructed (made), the obstacles whose mesh is in
                \* the scene (scene), and every dispose() call on an obstacle,
                \* in order (disposed)
    keys,       \* the key codes that are down, in the specification that
                \* follows the keyboard (SpecKeys)
    life,       \* the component's life cycle: the refs that hold an object (refs),
                \* whether a call of animate is due (scheduled), whether the key
                \* listeners are attached (listening), and the operations the
                \* effect cleanup has performed, in order (log)
    frame       \* history, read by the properties only: the last step (op), the
                \* session phase before the last frame (phase), the handler that
                \* frame ran (ran), whether the airplane's box then met an active
                \* obstacle's (hit), how many active obstacles were then more than
                \* 50 behind the airplane (behind), the seconds since the previous
                \* call of animate (gap), the frame's deltaTime (dt), the steps
                \* the frame took, in order (steps), and the airplane's
                \* position, rotation and velocity as the frame found them (was)

VARIABLES
    stats,      \* the StatsMonitor component: its state (fps, isMobile), its
                \* effect's variables (frameCount, lastTime, frameId), the
                \* pending frame requests, the clock, and the last step (op)
    box         \* the ControlBox component: its prop alwaysVisible, its state
                \* (visible, minimized, isMobile), its effect's variable
                \* timeout, the pending timers, the clock, and the last step (op)

\* the two overlay components' variables
ui == << stats, box >>

\* the game component's variables
game ==
    << airplane, obstacles, gameState, frameId, rng, camera, resources, keys, life, frame >>

vars ==
    << airplane, obstacles, gameState, frameId, rng, camera, resources, keys, life, frame,
       stats, box >>

\* useState's initial value: the state every closure of the first render reads
InitialGameState ==
    [score |-> 0, isGameOver |-> FALSE, playerPosition |-> ZeroVector,
     gamePhase |-> "takeoff", speed |-> 0]

\* handleKeyDown / handleKeyUp: the control a key code is bound to
KeyCodes ==
    {"ArrowUp", "KeyW", "ArrowDown", "KeyS", "ArrowLeft", "KeyA",
     "ArrowRight", "KeyD", "Space", "KeyP"}

\* the controls, and the key codes whose case of the switch assigns each
Intents == {"up", "down", "left", "right", "boost"}

KeysOf(intent) ==
    CASE intent = "up" -> {"ArrowUp", "KeyW"}
      [] intent = "down" -> {"ArrowDown", "KeyS"}
      [] intent = "left" -> {"ArrowLeft", "KeyA"}
      [] intent = "right" -> {"ArrowRight", "KeyD"}
      [] OTHER -> {"Space"}

\* a switch whose unmapped keys fall through to the throttle
HandleKeyDefaultBoost(controls, code, value) ==
    CASE code \in {"ArrowUp", "KeyW"} -> [controls EXCEPT !.up = value]
      [] code \in {"ArrowDown", "KeyS"} -> [controls EXCEPT !.down = value]
      [] code \in {"ArrowLeft", "KeyA"} -> [controls EXCEPT !.left = value]
      [] code \in {"ArrowRight", "KeyD"} -> [controls EXCEPT !.right = value]
      [] OTHER -> [controls EXCEPT !.boost = value]

\* the switch of handleKeyDown (value TRUE) and handleKeyUp (value FALSE)
HandleKey(controls, code, value) ==
    CASE code \in {"ArrowUp", "KeyW"} -> [controls EXCEPT !.up = value]
      [] code \in {"ArrowDown", "KeyS"} -> [controls EXCEPT !.down = value]
      [] code \in {"ArrowLeft", "KeyA"} -> [controls EXCEPT !.left = value]
      [] code \in {"ArrowRight", "KeyD"} -> [controls EXCEPT !.right = value]
      [] code = "Space" -> [controls EXCEPT !.boost = value]
      [] OTHER -> controls

\* A world is the record [airplane, obstacles, gameState, rng, refs] the frame
\* handlers read and write.

\* a takeoff condition that either half satisfies
TakeoffGateEither(p) == p.z < -(50 * Unit) \/ p.y > 5 * Unit

\* the takeoff condition of handleTakeoffPhase
TakeoffGate(p) == p.z < -(50 * Unit) /\ p.y > 5 * Unit

\* the obstacles one call creates: count of them, from draw i on
RECURSIVE Spawn(_, _, _, _, _)
Spawn(count, planeZ, zNear, zSpread, i) ==
    IF count = 0 THEN << >>
    ELSE << NewObstacle(planeZ, zNear, zSpread, i) >>
         \o Spawn(count - 1, planeZ, zNear, zSpread, i + 5)

\* new Obstacle(...) and sceneRef.current.add(obstacle.mesh), for each of new
SceneAdd(res, new) ==
    [res EXCEPT !.made = @ + Len(new), !.scene = @ \o new]

\* scene.remove(mesh): the scene without the first entry that is o
RECURSIVE SceneRemove(_, _)
SceneRemove(scene, o) ==
    IF scene = << >> THEN << >>
    ELSE IF Head(scene) = o THEN Tail(scene)
    ELSE << Head(scene) >> \o SceneRemove(Tail(scene), o)

\* a removal that disposes the obstacles and leaves their meshes in the scene
RemoveAndDisposeKeepsMesh(res, gone) ==
    [res EXCEPT !.disposed = @ \o gone]

\* sceneRef.current.remove(obstacle.mesh); obstacle.dispose(), for each of gone
\* in order: the filter of handleFlightPhase and the loop of restartGame
RECURSIVE RemoveAndDispose(_, _)
RemoveAndDispose(res, gone) ==
    IF gone = << >> THEN res
    ELSE RemoveAndDispose([res EXCEPT !.scene = SceneRemove(@, Head(gone)),
                                      !.disposed = Append(@, Head(gone))],
                          Tail(gone))

\* the effect cleanup's obstaclesRef.current.forEach(obstacle => obstacle.dispose())
CleanupObstacles(res, obs) == [res EXCEPT !.disposed = @ \o obs]

\* generateObstacles(): 5 obstacles, 100 to 200 beyond the airplane
GenerateObstacles(w) ==
    With(Spawn(5, w.airplane.position.z, 100 * Unit, 100 * Unit, w.rng), LAMBDA new :
        [w EXCEPT !.obstacles = w.obstacles \o new,
                  !.resources = SceneAdd(w.resources, new),
                  !.rng = (w.rng + 25) % Len(RandomTable)])

\* addObstacle(): one obstacle, 200 to 250 beyond the airplane
AddObstacle(w) ==
    With(Spawn(1, w.airplane.position.z, 200 * Unit, 50 * Unit, w.rng), LAMBDA new :
        [w EXCEPT !.obstacles = w.obstacles \o new,
                  !.resources = SceneAdd(w.resources, new),
                  !.rng = (w.rng + 5) % Len(RandomTable)])

\* handleTakeoffPhase(deltaTime)
HandleTakeoffPhase(w, dt) ==
    With(UpdateTakeoff(w.airplane, dt), LAMBDA a :
        IF TakeoffGate(a.position)
        THEN GenerateObstacles([w EXCEPT !.airplane = a, !.gameState.gamePhase = "flight"])
        ELSE [w EXCEPT !.airplane = a])

\* the collision loop of handleFlightPhase: some obstacle's box meets the airplane's
AnyCollision(obs, p) == \E i \in 1..Len(obs) : CheckCollision(obs[i], p)

\* "Remove obstacles that are too far behind": the filter's keep condition
Keeps(o, p) == ~(o.position.z > p.z + 50 * Unit)

FilterObstacles(obs, p) == SelectSeq(obs, LAMBDA o : Keeps(o, p))

\* the obstacles for which the filter's callback returns false, in array order
DroppedObstacles(obs, p) == SelectSeq(obs, LAMBDA o : ~Keeps(o, p))

\* the score a sampling frame sets: Math.floor(Math.abs(airplanePosition.z) / 10)
ScoreOf(p) == Abs(p.z) \div (10 * Unit)

\* "Update score every ~1 second"
ScoreFrame(id) == id % 60 = 0

\* a flight frame that adds no obstacle
ReplenishNever(w) == w

\* handleFlightPhase, "Add new obstacles if needed"
Replenish(w) == IF Len(w.obstacles) < 5 THEN AddObstacle(w) ELSE w

\* handleFlightPhase, "Increase score based on distance flown"
UpdateScore(w, id) ==
    IF ScoreFrame(id)
    THEN [w EXCEPT !.gameState.score = ScoreOf(w.airplane.position)]
    ELSE w

\* the obstacles loop of handleFlightPhase, the part that updates: update(deltaTime)
\* on every active obstacle, in array order
UpdateObstacles(obs, dt) == [i \in 1..Len(obs) |-> ObstacleUpdate(obs[i], dt)]

\* a flight handler whose loop ends the game at any obstacle, colliding or not
HandleFlightPhaseNoTest(w, dt, id) ==
    With(Update(w.airplane, dt), LAMBDA a :
    With(UpdateObstacles(w.obstacles, dt), LAMBDA obs :
    With([w EXCEPT !.airplane = a,
                   !.obstacles = FilterObstacles(obs, a.position),
                   !.resources = RemoveAndDispose(@, DroppedObstacles(obs, a.position)),
                   !.gameState.isGameOver = (Len(obs) > 0 \/ @)],
         LAMBDA w1 :
    With(Replenish(w1), LAMBDA w2 : UpdateScore(w2, id)))))

\* handleFlightPhase(deltaTime), in a frame whose frameIdRef.current is id
HandleFlightPhase(w, dt, id) ==
    With(Update(w.airplane, dt), LAMBDA a :
    With(UpdateObstacles(w.obstacles, dt), LAMBDA obs :
    With([w EXCEPT !.airplane = a,
                   !.obstacles = FilterObstacles(obs, a.position),
                   !.resources = RemoveAndDispose(@, DroppedObstacles(obs, a.position)),
                   !.gameState.isGameOver = (AnyCollision(obs, a.position) \/ @)],
         LAMBDA w1 :
    With(Replenish(w1), LAMBDA w2 : UpdateScore(w2, id)))))

\* an animate() whose guard does not read the game-over flag
FrameRunsAlways(seen) == TRUE

\* animate's guard, the part on the game-over flag that animate reads
FrameRuns(seen) == ~seen.isGameOver

\* the refs animate's guard requires: sceneRef, cameraRef, rendererRef, airplaneRef
Collaborators == {"scene", "camera", "renderer", "airplane"}

\* an animate() guard that requires the airplane only
CollaboratorsPresentAirplaneOnly(refs) == "airplane" \in refs

\* animate's guard, the part on the refs
CollaboratorsPresent(refs) == Collaborators \subseteq refs

\* animate's "Update player position and speed for stats"
StatsUpdate(gs, a) == [gs EXCEPT !.playerPosition = a.position, !.speed = Length(a.velocity)]

\* v.applyQuaternion(mesh.quaternion): v turned by the Euler angles of rot, in
\* the order 'XYZ' (about z first, then y, then x), for a v with v.x = 0
ApplyRotation(v, rot) ==
    With(Vec(-Mul(v.y, Sin(rot.z)), Mul(v.y, Cos(rot.z)), v.z), LAMBDA p :
    With(Vec(Mul(p.x, Cos(rot.y)) + Mul(p.z, Sin(rot.y)), p.y,
             Mul(p.z, Cos(rot.y)) - Mul(p.x, Sin(rot.y))), LAMBDA q :
         Vec(q.x, Mul(q.y, Cos(rot.x)) - Mul(q.z, Sin(rot.x)),
             Mul(q.y, Sin(rot.x)) + Mul(q.z, Cos(rot.x)))))

\* the camera of the init effect: camera.position.set(0, 5, 10), looking down -z
NewCamera ==
    [position |-> Vec(0, 5 * Unit, 10 * Unit), target |-> Vec(0, 5 * Unit, 9 * Unit)]

\* the offsets of updateCamera: the camera's in each phase, and the look-ahead
TakeoffCameraOffset == Vec(0, 3 * Unit, 15 * Unit)
FlightCameraOffset == Vec(0, 5 * Unit, 15 * Unit)
LookAtOffset == Vec(0, 0, -10 * Unit)

\* updateCamera(), as a function of the gameState `seen` that its closure reads
UpdateCamera(seen, a) ==
    IF seen.gamePhase = "takeoff"
    THEN [position |-> AddScaled(a.position, TakeoffCameraOffset, Unit),
          target |-> a.position]
    ELSE [position |-> AddScaled(a.position, ApplyRotation(FlightCameraOffset, a.rotation), Unit),
          target |-> AddScaled(a.position, ApplyRotation(LookAtOffset, a.rotation), Unit)]

\* an animate() whose skipped frame clears the game-over flag
AnimateForgets(seen, w, dt, id) ==
    IF CollaboratorsPresent(w.refs) /\ FrameRuns(seen)
    THEN With(IF seen.gamePhase = "takeoff"
              THEN HandleTakeoffPhase(w, dt)
              ELSE HandleFlightPhase(w, dt, id),
              LAMBDA w1 : [w1 EXCEPT !.camera = UpdateCamera(seen, w1.airplane),
                                     !.gameState = StatsUpdate(w1.gameState, w1.airplane)])
    ELSE [w EXCEPT !.gameState.isGameOver = FALSE]

\* animate(), as a function of the gameState `seen` that its closure reads
Animate(seen, w, dt, id) ==
    IF CollaboratorsPresent(w.refs) /\ FrameRuns(seen)
    THEN With(IF seen.gamePhase = "takeoff"
              THEN HandleTakeoffPhase(w, dt)
              ELSE HandleFlightPhase(w, dt, id),
              LAMBDA w1 : [w1 EXCEPT !.camera = UpdateCamera(seen, w1.airplane),
                                     !.gameState = StatsUpdate(w1.gameState, w1.airplane)])
    ELSE w

\* a restartGame() that also lets go of every control
RestartGameClearsControls(w) ==
    IF ~({"scene", "airplane"} \subseteq w.refs) THEN w ELSE
    [w EXCEPT !.airplane = NewAirplane,
              !.obstacles = << >>,
              !.resources = RemoveAndDispose(@, w.obstacles),
              !.gameState = [score |-> 0, isGameOver |-> FALSE,
                             playerPosition |-> StartPosition,
                             gamePhase |-> "takeoff", speed |-> 0]]

\* a restartGame() that leaves the airplane's velocity alone
RestartGameKeepsVelocity(w) ==
    IF ~({"scene", "airplane"} \subseteq w.refs) THEN w ELSE
    [w EXCEPT !.airplane.position = StartPosition,
              !.airplane.rotation = StartRotation,
              !.obstacles = << >>,
              !.resources = RemoveAndDispose(@, w.obstacles),
              !.gameState = [score |-> 0, isGameOver |-> FALSE,
                             playerPosition |-> StartPosition,
                             gamePhase |-> "takeoff", speed |-> 0]]

\* restartGame()
RestartGame(w) ==
    IF ~({"scene", "airplane"} \subseteq w.refs) THEN w ELSE
    [w EXCEPT !.airplane.position = StartPosition,
              !.airplane.rotation = StartRotation,
              !.airplane.velocity = ZeroVector,
              !.obstacles = << >>,
              !.resources = RemoveAndDispose(@, w.obstacles),
              !.gameState = [score |-> 0, isGameOver |-> FALSE,
                             playerPosition |-> StartPosition,
                             gamePhase |-> "takeoff", speed |-> 0]]


(***************************************************************************)
(* The program as a state machine                                          *)
(***************************************************************************)
World ==
    [airplane |-> airplane, obstacles |-> obstacles, gameState |-> gameState,
     rng |-> rng, camera |-> camera, resources |-> resources, refs |-> life.refs]

\* the ceiling of deltaTime, and the times between two calls of animate that
\* stay within it: two calls in the same millisecond, a frame of a 60 Hz
\* display, and the ceiling itself
FrameCap == Unit \div 10
DtSet == {0, Unit \div 60, FrameCap}

\* (currentTime - lastTimeRef.current) / 1000: the times of DtSet, and a whole
\* second, as after a stalled tab; performance.now() never runs backwards
GapSet == DtSet \cup {1 * Unit}

\* an animate() that passes the time between two calls on as it is
DeltaTimeUncapped(gap) == gap

\* deltaTime = Math.min((currentTime - lastTimeRef.current) / 1000, 0.1)
DeltaTime(gap) == Min(gap, FrameCap)

\* an animate() that updates the camera and the environment before the
\* obstacles and tests the collisions last
AnimateStepsCameraFirst(ran) ==
    CASE ran = "takeoff" ->
           << "clamp", "vehicle", "gate",
              "camera", "environment", "stats", "render", "request" >>
      [] ran = "flight" ->
           << "clamp", "vehicle", "camera", "environment", "despawn", "spawn",
              "score", "gameover", "stats", "render", "request" >>
      [] OTHER -> << "clamp", "request" >>

\* The steps of one call of animate, in the order of its statements, handler
\* ran ("none" if the guard skipped the frame body): "gate" is the takeoff
\* condition with the phase change and generateObstacles; "gameover" is the
\* collision loop with its latch.
AnimateSteps(ran) ==
    CASE ran = "takeoff" ->
           << "clamp", "vehicle", "gate",
              "camera", "environment", "stats", "render", "request" >>
      [] ran = "flight" ->
           << "clamp", "vehicle", "gameover", "despawn", "spawn", "score",
              "camera", "environment", "stats", "render", "request" >>
      [] OTHER -> << "clamp", "request" >>

\* the airplane's mesh.position, mesh.rotation and velocity
Pose(a) == [position |-> a.position, rotation |-> a.rotation, velocity |-> a.velocity]

\* every ref the init effect reads or assigns and that the model tracks
AllRefs == Collaborators \cup {"container"}

\* The state when the init effect has attached the listeners and calls
\* animate(), with the refs of `refs` holding their objects.
InitProps(refs, alwaysVisible) ==
    /\ stats = NewStats
    /\ box = NewBox(alwaysVisible)
    /\ airplane = NewAirplane
    /\ obstacles = << >>
    /\ gameState = InitialGameState
    /\ frameId = 0
    /\ rng = 0
    /\ camera = NewCamera
    /\ resources = [made |-> 0, scene |-> << >>, disposed |-> << >>]
    /\ keys = {}
    /\ life = [refs |-> refs, scheduled |-> TRUE, listening |-> TRUE, log |-> << >>]
    /\ frame = [op |-> "init", phase |-> "takeoff", ran |-> "none", hit |-> FALSE,
                behind |-> 0, gap |-> 0, dt |-> 0, steps |-> << >>,
                was |-> Pose(NewAirplane)]

\* AirplaneGame renders ControlBox without the alwaysVisible prop
InitWith(refs) == InitProps(refs, FALSE)

\* the mounted component: the init effect has assigned every ref
Init == InitWith(AllRefs)

\* handleKeyDown(event)
KeyDown(code) ==
    /\ life.listening
    /\ airplane' = IF "airplane" \in life.refs
                   THEN [airplane EXCEPT !.controls = HandleKey(@, code, TRUE)]
                   ELSE airplane
    /\ frame' = [frame EXCEPT !.op = "keydown"]
    /\ UNCHANGED << obstacles, gameState, frameId, rng, camera, resources, keys, life >>
    /\ UNCHANGED ui

\* handleKeyUp(event)
KeyUp(code) ==
    /\ life.listening
    /\ airplane' = IF "airplane" \in life.refs
                   THEN [airplane EXCEPT !.controls = HandleKey(@, code, FALSE)]
                   ELSE airplane
    /\ frame' = [frame EXCEPT !.op = "keyup"]
    /\ UNCHANGED << obstacles, gameState, frameId, rng, camera, resources, keys, life >>
    /\ UNCHANGED ui

\* One call of animate, gap seconds after the previous one, whose closure reads
\* the gameState `seen`, with the state updates it queued applied;
\* frameIdRef.current becomes the handle of the request the call registers.
Tick(seen, gap) ==
    /\ life.scheduled
    /\ \E w \in {Animate(seen, World, DeltaTime(gap), frameId)} :
        /\ airplane' = w.airplane
        /\ obstacles' = w.obstacles
        /\ gameState' = w.gameState
        /\ rng' = w.rng
        /\ camera' = w.camera
        /\ resources' = w.resources
        /\ frameId' = frameId + 1
        /\ frame' = [op |-> "frame",
                     phase |-> gameState.gamePhase,
                     ran |-> IF CollaboratorsPresent(life.refs) /\ FrameRuns(seen)
                             THEN seen.gamePhase ELSE "none",
                     hit |-> AnyCollision(obstacles, w.airplane.position),
                     behind |-> Cardinality({i \in 1..Len(obstacles) :
                                     obstacles[i].position.z
                                         > w.airplane.position.z + 50 * Unit}),
                     gap |-> gap,
                     dt |-> DeltaTime(gap),
                     steps |-> AnimateSteps(IF CollaboratorsPresent(life.refs)
                                               /\ FrameRuns(seen)
                                            THEN seen.gamePhase ELSE "none"),
                     was |-> Pose(airplane)]
    /\ UNCHANGED << keys, life >>
    /\ UNCHANGED ui

\* restartGame(), the click handler of "Play Again"
Restart ==
    /\ life.log = << >>
    /\ \E w \in {RestartGame(World)} :
           /\ airplane' = w.airplane
           /\ obstacles' = w.obstacles
           /\ gameState' = w.gameState
           /\ rng' = w.rng
           /\ camera' = w.camera
           /\ resources' = w.resources
    /\ frame' = [frame EXCEPT !.op = "restart"]
    /\ UNCHANGED << frameId, keys, life >>
    /\ UNCHANGED ui

\* an effect cleanup that does not cancel the frame request
CleanupKeepsRequest(l) ==
    [l EXCEPT !.listening = FALSE,
              !.log = << "removeResize", "removeKeydown", "removeKeyup" >>
                      \o (IF {"renderer", "container"} \subseteq l.refs
                          THEN << "disposeRenderer" >> ELSE << >>)
                      \o << "disposeObstacles" >>
                      \o (IF "airplane" \in l.refs THEN << "disposeAirplane" >> ELSE << >>)
                      \o << "disposeEnvironment", "disposeAirport" >>]

\* the cleanup function the init effect returns: the operations it performs, in
\* the order of its statements, and what they leave of the life cycle
Cleanup(l) ==
    [l EXCEPT !.listening = FALSE,
              !.scheduled = FALSE,
              !.log = << "removeResize", "removeKeydown", "removeKeyup",
                         "cancelAnimationFrame" >>
                      \o (IF {"renderer", "container"} \subseteq l.refs
                          THEN << "disposeRenderer" >> ELSE << >>)
                      \o << "disposeObstacles" >>
                      \o (IF "airplane" \in l.refs THEN << "disposeAirplane" >> ELSE << >>)
                      \o << "disposeEnvironment", "disposeAirport" >>]

\* The component unmounts: React runs the effect cleanup, between two calls of
\* animate; it may have detached the container ref before.
Unmount ==
    /\ life.log = << >>
    /\ \E detached \in BOOLEAN :
           life' = Cleanup([life EXCEPT !.refs = IF detached THEN @ \ {"container"} ELSE @])
    /\ resources' = CleanupObstacles(resources, obstacles)
    /\ frame' = [frame EXCEPT !.op = "unmount"]
    /\ UNCHANGED << airplane, obstacles, gameState, frameId, rng, camera, keys >>
    /\ UNCHANGED ui

\* handleKeyDown(event), for the key `code` going down or repeating
Press(code) ==
    /\ life.listening
    /\ airplane' = IF "airplane" \in life.refs
                   THEN [airplane EXCEPT !.controls = HandleKey(@, code, TRUE)]
                   ELSE airplane
    /\ keys' = keys \cup {code}
    /\ frame' = [frame EXCEPT !.op = "keydown"]
    /\ UNCHANGED << obstacles, gameState, frameId, rng, camera, resources, life >>
    /\ UNCHANGED ui

\* handleKeyUp(event), for the key `code` coming up
Release(code) ==
    /\ life.listening
    /\ code \in keys
    /\ airplane' = IF "airplane" \in life.refs
                   THEN [airplane EXCEPT !.controls = HandleKey(@, code, FALSE)]
                   ELSE airplane
    /\ keys' = keys \ {code}
    /\ frame' = [frame EXCEPT !.op = "keyup"]
    /\ UNCHANGED << obstacles, gameState, frameId, rng, camera, resources, life >>
    /\ UNCHANGED ui

(***************************************************************************)
(* Spec: the program as React runs it.  The loop is started by the init    *)
(* effect, whose dependency list is empty: the animate that runs, and that *)
(* every frame request registers again, is the one of the first render,    *)
(* and the gameState it reads is that render's, InitialGameState.          *)
(*                                                                         *)
(* The frames run up to MaxFrames.  Frames take FrameCap, except the       *)
(* frames of UnevenFrames, which take any time of DtSet.  Key events       *)
(* arrive before the frames of KeyFrames, restartGame is invoked before    *)
(* the frames of RestartFrames, and the component may unmount before the   *)
(* frames of UnmountFrames.                                                *)
(***************************************************************************)
MaxFrames == 100
UnevenFrames == {12, 60}
KeyFrames == {0, 40, 86}
RestartFrames == {50, 90}
UnmountFrames == {30, 95}

Frame ==
    /\ frameId < MaxFrames
    /\ \E gap \in (IF frameId \in UnevenFrames THEN GapSet ELSE {FrameCap}) :
           Tick(InitialGameState, gap)

Next ==
    \/ \E code \in KeyCodes : frameId \in KeyFrames /\ KeyDown(code)
    \/ \E code \in KeyCodes : frameId \in KeyFrames /\ KeyUp(code)
    \/ Frame
    \/ frameId \in RestartFrames /\ Restart
    \/ frameId \in UnmountFrames /\ Unmount

Spec == Init /\ [][Next]_vars

(***************************************************************************)
(* SpecDispatch: the frame handlers as animate dispatches them when it     *)
(* reads the component's current gameState: the takeoff handler in the     *)
(* takeoff phase, the flight handler in the flight phase, neither once the *)
(* game is over.  The key events are those of a sortie: throttle and       *)
(* pitch-up held from the start, and after takeoff a levelling-off and a   *)
(* left turn back over the obstacles.                                      *)
(***************************************************************************)
MaxSortieFrames == 184
SortieUnevenFrames == {90}
SortieRestartFrames == {150}

SortieKeys ==
    [f \in {0, 80, 84, 111, 118} |->
        CASE f = 0 -> {"Space", "ArrowUp", "KeyP"}
          [] f = 80 -> {"KeyW", "ArrowDown", "ArrowLeft", "ArrowRight"}
          [] f = 84 -> {"KeyS"}
          [] OTHER -> {"KeyA"}]

SortieKeysAt(f) == IF f \in DOMAIN SortieKeys THEN SortieKeys[f] ELSE {}

FrameDispatch ==
    /\ frameId < MaxSortieFrames
    /\ \E gap \in (IF frameId \in SortieUnevenFrames THEN GapSet ELSE {FrameCap}) :
           Tick(gameState, gap)

NextDispatch ==
    \/ \E code \in SortieKeysAt(frameId) : KeyDown(code)
    \/ \E code \in SortieKeysAt(frameId) : KeyUp(code)
    \/ FrameDispatch
    \/ frameId \in SortieRestartFrames /\ Restart

SpecDispatch == Init /\ [][NextDispatch]_vars


(***************************************************************************)
(* SpecThrottle: the throttle run.  The keys are pressed before the first  *)
(* frame and every frame takes 1/60 s.                                     *)
(***************************************************************************)
MaxThrottleFrames == 180

ThrottleFrame ==
    /\ frameId < MaxThrottleFrames
    /\ Tick(InitialGameState, Unit \div 60)

NextThrottle ==
    \/ \E code \in {"Space", "ArrowUp"} : frameId = 0 /\ KeyDown(code)
    \/ \E code \in {"Space", "ArrowUp"} : frameId = 0 /\ KeyUp(code)
    \/ ThrottleFrame

SpecThrottle == Init /\ [][NextThrottle]_vars

(***************************************************************************)
(* SpecGuard: animate as a function of the refs its guard reads.  In the   *)
(* mounted component the init effect has assigned all of them before the   *)
(* first call (Init); here the loop starts with any of the four absent.    *)
(* The handlers' own guards (handleTakeoffPhase, handleFlightPhase,        *)
(* updateCamera, generateObstacles, addObstacle) test refs that animate's  *)
(* guard has tested already.                                               *)
(***************************************************************************)
MaxGuardFrames == 6

InitGuard == \E refs \in SUBSET Collaborators : InitWith(refs \cup {"container"})

GuardFrame ==
    /\ frameId < MaxGuardFrames
    /\ \E gap \in {Unit \div 60, FrameCap} : Tick(InitialGameState, gap)

NextGuard ==
    \/ \E code \in {"Space", "ArrowUp"} : frameId = 0 /\ KeyDown(code)
    \/ \E code \in {"Space", "ArrowUp"} : frameId = 0 /\ KeyUp(code)
    \/ GuardFrame
    \/ frameId = 3 /\ Restart

SpecGuard == InitGuard /\ [][NextGuard]_vars

(***************************************************************************)
(* SpecKeys: the key listeners under the keyboard.  No key is down when    *)
(* the listeners are attached; before the first frame any key of KeyCodes  *)
(* goes down (or repeats) and any key that is down comes up, in any order. *)
(***************************************************************************)
MaxKeysFrames == 2

KeysFrame ==
    /\ frameId < MaxKeysFrames
    /\ Tick(InitialGameState, FrameCap)

NextKeys ==
    \/ \E code \in KeyCodes : frameId = 0 /\ Press(code)
    \/ \E code \in KeyCodes : frameId = 0 /\ Release(code)
    \/ KeysFrame

SpecKeys == Init /\ [][NextKeys]_vars

(***************************************************************************)
(* SpecStall: a climb and a stall in the program as React runs it.  The    *)
(* throttle and pitch-up keys go down or up before the first frame and     *)
(* before the frame StallReleaseFrame; every frame takes 0.1 s.  With both *)
(* held the airplane lifts off and climbs; with the throttle released it   *)
(* loses 0.5 of speed per frame until it stands still.                     *)
(***************************************************************************)
MaxStallFrames == 300
StallReleaseFrame == 90

StallFrame ==
    /\ frameId < MaxStallFrames
    /\ Tick(InitialGameState, FrameCap)

NextStall ==
    \/ \E code \in {"Space", "ArrowUp"} :
           frameId \in {0, StallReleaseFrame} /\ KeyDown(code)
    \/ \E code \in {"Space", "ArrowUp"} :
           frameId \in {0, StallReleaseFrame} /\ KeyUp(code)
    \/ StallFrame

SpecStall == Init /\ [][NextStall]_vars

(***************************************************************************)
(* SpecCoast: the frame handlers as animate dispatches them on the current *)
(* gameState (as in SpecDispatch), with keys that are let go.  Throttle    *)
(* and pitch-up go down or up before the first frame, the throttle again   *)
(* before frame 20, roll-left before frame 82, soon after takeoff, and any *)
(* of the three before frame 88; every frame takes 0.1 s.                  *)
(***************************************************************************)
MaxCoastFrames == 110

CoastKeys ==
    [f \in {0, 20, 82, 88} |->
        CASE f = 0 -> {"Space", "ArrowUp"}
          [] f = 20 -> {"Space"}
          [] f = 82 -> {"ArrowLeft"}
          [] OTHER -> {"Space", "ArrowUp", "ArrowLeft"}]

CoastKeysAt(f) == IF f \in DOMAIN CoastKeys THEN CoastKeys[f] ELSE {}

CoastFrame ==
    /\ frameId < MaxCoastFrames
    /\ Tick(gameState, FrameCap)

NextCoast ==
    \/ \E code \in CoastKeysAt(frameId) : KeyDown(code)
    \/ \E code \in CoastKeysAt(frameId) : KeyUp(code)
    \/ CoastFrame

SpecCoast == Init /\ [][NextCoast]_vars

(***************************************************************************)
(* SpecRun: the takeoff run at 60 frames per second, with the loop's       *)
(* scheduling.  The throttle and pitch-up keys go down or up before the    *)
(* first frame and stay as they are; every frame takes 1/60 s, and each    *)
(* call of animate registers the next, so the frames keep coming.          *)
(***************************************************************************)
MaxRunFrames == 490

RunFrame ==
    /\ frameId < MaxRunFrames
    /\ Tick(InitialGameState, Unit \div 60)

NextRun ==
    \/ \E code \in {"Space", "ArrowUp"} : frameId = 0 /\ KeyDown(code)
    \/ \E code \in {"Space", "ArrowUp"} : frameId = 0 /\ KeyUp(code)
    \/ RunFrame

SpecRun == Init /\ [][NextRun]_vars /\ WF_vars(RunFrame)

(***************************************************************************)
(* SpecStats: the StatsMonitor component.  The browser runs a pending      *)
(* frame request 17 ms or 600 ms after the previous one, the window is     *)
(* resized, and the component is unmounted at any moment.                  *)
(***************************************************************************)
MaxStatsFrames == 7

\* the browser runs the callback of a pending frame request
StatsFrame(gap) ==
    /\ stats.issued < MaxStatsFrames
    /\ \E h \in stats.requests : stats' = UpdateFPS(stats, h, gap)
    /\ UNCHANGED << game, box >>

\* a resize event of the window: handleResize, while the listener is attached
StatsResize(width) ==
    /\ stats.mounted
    /\ stats' = [stats EXCEPT !.isMobile = IsMobileWidth(width), !.op = "resize"]
    /\ UNCHANGED << game, box >>

\* React unmounts the component: the effect's cleanup runs
StatsUnmount ==
    /\ stats.mounted
    /\ stats' = StatsCleanup(stats)
    /\ UNCHANGED << game, box >>

NextStats ==
    \/ \E gap \in {17, 600} : StatsFrame(gap)
    \/ \E width \in {500, 1024} : StatsResize(width)
    \/ StatsUnmount

SpecStats == Init /\ [][NextStats]_vars

(***************************************************************************)
(* SpecBox: the ControlBox component, with either value of alwaysVisible.  *)
(* Time passes in steps of at most BoxTick ms, a timer fires when it is due; *)
(* mousemove and keydown events, resizes, clicks on the minimize button    *)
(* and the unmount happen at any moment.  Events are handled up to         *)
(* MaxBoxEvents times and up to the time MaxBoxTime (in steps), and the    *)
(* clock runs on until the last timer is due.                              *)
(***************************************************************************)
BoxTick == 1000
MaxBoxTime == 9
MaxBoxEvents == 4

InitBox == \E alwaysVisible \in BOOLEAN : InitProps(AllRefs, alwaysVisible)

\* a mousemove or keydown event of the document, while the listeners are attached
BoxEvent(kind) ==
    /\ box.mounted
    /\ box.events < MaxBoxEvents
    /\ box.now <= MaxBoxTime * BoxTick
    /\ box' = [ShowControls(box) EXCEPT !.shown = box.now, !.events = @ + 1,
                                        !.op = kind]
    /\ UNCHANGED << game, stats >>

\* the time to the next moment the model looks at: BoxTick ms, or less when a
\* timer is due before that
TimeStep(b) ==
    IF \E t \in b.timers : t.due - b.now < BoxTick
    THEN CHOOSE d \in {t.due - b.now : t \in b.timers} :
            \A t \in b.timers : d <= t.due - b.now
    ELSE BoxTick

\* time passes with no timer due
BoxTime ==
    /\ box.now < MaxBoxTime * BoxTick \/ box.timers # {}
    /\ \A t \in box.timers : box.now < t.due
    /\ box' = [box EXCEPT !.now = @ + TimeStep(box), !.op = "time"]
    /\ UNCHANGED << game, stats >>

\* a timer is due: its callback () => setVisible(false) runs
BoxTimeout ==
    /\ \E t \in box.timers :
          /\ t.due <= box.now
          /\ box' = [box EXCEPT !.visible = IF box.mounted THEN FALSE ELSE @,
                                !.timers = @ \ {t}, !.op = "hide"]
    /\ UNCHANGED << game, stats >>

\* a resize event of the window: handleResize, while the listener is attached
BoxResize(width) ==
    /\ box.mounted
    /\ box' = [box EXCEPT !.isMobile = IsMobileWidth(width), !.op = "resize"]
    /\ UNCHANGED << game, stats >>

\* a click on the minimize button, which is rendered unless the box is
\* hidden and minimized: setMinimized(!minimized)
BoxMinimize ==
    /\ box.mounted
    /\ box.visible \/ ~box.minimized
    /\ box' = [box EXCEPT !.minimized = ~@, !.op = "minimize"]
    /\ UNCHANGED << game, stats >>

\* React unmounts the component: the effect's cleanup runs
BoxUnmount ==
    /\ box.mounted
    /\ box' = BoxCleanup(box)
    /\ UNCHANGED << game, stats >>

NextBox ==
    \/ \E kind \in {"mousemove", "keydown"} : BoxEvent(kind)
    \/ BoxTime
    \/ BoxTimeout
    \/ \E width \in {500, 1024} : BoxResize(width)
    \/ BoxMinimize
    \/ BoxUnmount

\* the event loop lets time pass and runs a timer that is due
SpecBox == InitBox /\ [][NextBox]_vars /\ WF_vars(BoxTime) /\ WF_vars(BoxTimeout)

(***************************************************************************)
(* Properties                                                              *)
(***************************************************************************)
\* the last step was a frame that began in the flight phase
FlightPhaseFrame == frame.op = "frame" /\ frame.phase = "flight"

\* the last step was a frame that began in the takeoff phase
TakeoffPhaseFrame == frame.op = "frame" /\ frame.phase = "takeoff"

\* C1: in the takeoff phase the airplane's altitude is never below the runway
\* reference height 0.5, whatever the frame times and the key events.
C1_AltitudeNeverBelowRunway ==
    gameState.gamePhase = "takeoff" => airplane.position.y >= Unit \div 2

\* C1 witness: a takeoff frame in which the airplane rolled down the runway and the
\* ground clamp put it back on the runway with no vertical velocity.
C1_Witness ==
    /\ TakeoffPhaseFrame
    /\ frame.dt > 0
    /\ airplane.velocity.z < 0
    /\ airplane.position.y = Unit \div 2
    /\ airplane.velocity.y = 0

\* C2: a frame that begins in the takeoff phase ends in the flight phase if and
\* only if, after its update, position.z < -50 and position.y > 5; altitude 6 at
\* distance 40 does not pass the gate, nor does altitude 5 at distance 60.
C2_TransitionIffGate ==
    [][(frame'.op = "frame" /\ gameState.gamePhase = "takeoff")
        => /\ (gameState'.gamePhase = "flight")
                <=> (/\ airplane'.position.z < -(50 * Unit)
                     /\ airplane'.position.y > 5 * Unit)
           /\ ~TakeoffGate(Vec(0, 6 * Unit, -(40 * Unit)))
           /\ ~TakeoffGate(Vec(0, 5 * Unit, -(60 * Unit)))]_vars

\* C2 witness: a frame has just taken the session from takeoff to flight.
C2_Witness == TakeoffPhaseFrame /\ gameState.gamePhase = "flight"

\* C3: pitch (rotation.x) and roll (rotation.z) stay within [-PI/4, PI/4] through
\* takeoff and flight updates, the bank smoothing included.
C3_PitchRollWithinLimits ==
    /\ -(Pi \div 4) <= airplane.rotation.x /\ airplane.rotation.x <= Pi \div 4
    /\ -(Pi \div 4) <= airplane.rotation.z /\ airplane.rotation.z <= Pi \div 4

\* C3 witness: a flight update has held the pitch at the limit while the roll,
\* integrated and smoothed, stands beyond the bank target.
C3_Witness ==
    /\ frame.op = "frame" /\ frame.ran = "flight"
    /\ airplane.rotation.x = -(Pi \div 4)
    /\ airplane.controls.up
    /\ airplane.rotation.z > TILT_FACTOR

C5_NoObstacleFarBehind ==
    FlightPhaseFrame
        => \A i \in 1..Len(obstacles) :
               obstacles[i].position.z <= airplane.position.z + 50 * Unit

\* C6: a frame of the flight phase in which the airplane's box meets an active
\* obstacle's ends with the game-over flag set.
C6_CollisionIsFatal ==
    (FlightPhaseFrame /\ frame.hit) => gameState.isGameOver

\* C7: once the game-over flag is set, every step but restartGame leaves it set.
C7_GameOverLatched ==
    [][(gameState.isGameOver /\ frame'.op # "restart") => gameState'.isGameOver]_vars

\* C7 witness: the game is over and a frame has since been requested and skipped.
C7_Witness ==
    /\ gameState.isGameOver
    /\ frame.op = "frame" /\ frame.ran = "none"

\* C8: no step but restartGame lowers the score.
C8_ScoreNeverDecreases ==
    [][frame'.op # "restart" => gameState'.score >= gameState.score]_vars

\* C9 as claimed: restartGame leaves the session exactly as it was initially.
C9_RestartEqualsInitial ==
    frame.op = "restart"
        => /\ airplane = NewAirplane
           /\ obstacles = << >>
           /\ gameState = InitialGameState

\* C9 as amended: restartGame sets the phase to takeoff, the score to 0, game-over
\* to false, the obstacle set to empty and the airplane's position, rotation and
\* velocity to their initial values; it sets the HUD position to (0, 0.5, 0), not
\* to the initial (0, 0, 0), and leaves the controls and the frame handle as they were.
C9_RestartResets ==
    [][frame'.op = "restart"
        => /\ gameState'.gamePhase = "takeoff"
           /\ gameState'.score = 0
           /\ ~gameState'.isGameOver
           /\ gameState'.speed = 0
           /\ gameState'.playerPosition = Vec(0, Unit \div 2, 0)
           /\ obstacles' = << >>
           /\ airplane'.position = Vec(0, Unit \div 2, 0)
           /\ airplane'.rotation = Vec(0, Pi, 0)
           /\ airplane'.velocity = Vec(0, 0, 0)
           /\ airplane'.controls = airplane.controls
           /\ frameId' = frameId]_vars

\* C9 witness: restartGame was invoked in the flight phase, with obstacles active
\* and a key held, and left the runway-start state with the key still held.
C9_Witness ==
    /\ frame.op = "restart" /\ frame.phase = "flight"
    /\ obstacles = << >>
    /\ airplane.position = Vec(0, Unit \div 2, 0)
    /\ airplane.controls.boost
    /\ gameState.playerPosition # InitialGameState.playerPosition

\* C10: after 180 frames of 1/60 s with the throttle held from the start, the
\* airplane has forward speed (velocity.z < 0) and has moved down the runway
\* (position.z < 0).
C10_ThrottleRun ==
    (frameId = 3 * 60 /\ airplane.controls.boost)
        => /\ airplane.velocity.z < 0
           /\ Length(airplane.velocity) > 0
           /\ airplane.position.z < 0

\* C10 witness: the run's end: speed 30 after 3 s, 45.25 down the runway.
C10_Witness ==
    /\ frameId = 3 * 60
    /\ airplane.controls.boost
    /\ airplane.velocity.z = -(30 * Unit)
    /\ airplane.position.z = -((4525 * Unit) \div 100)

\* C11: a frame that runs the takeoff update ends with velocity.z <= 0 and with
\* position.z no greater than before; with the throttle released the speed does
\* not grow.
C11_NeverBackward ==
    [][(frame'.op = "frame" /\ frame'.ran = "takeoff")
        => /\ airplane'.velocity.z <= 0
           /\ airplane'.position.z <= airplane.position.z
           /\ ~airplane.controls.boost => airplane'.velocity.z >= airplane.velocity.z]_vars

\* C11 witness: the throttle is released, the airplane is down the runway and
\* still rolling forward, slower than the throttle had made it.
C11_Witness ==
    /\ TakeoffPhaseFrame /\ frame.ran = "takeoff"
    /\ ~airplane.controls.boost
    /\ airplane.position.z < 0
    /\ airplane.velocity.z < 0
    /\ airplane.velocity.z > -(40 * Unit)
    /\ frameId > 40

\* C12: the phase goes from flight back to takeoff only by restartGame, and the
\* game-over flag goes from false to true only in a frame that began in the
\* flight phase, ran the flight handler and found a collision.
C12_OneWayPhases ==
    [][/\ (gameState.gamePhase = "flight" /\ gameState'.gamePhase = "takeoff")
             => frame'.op = "restart"
       /\ (~gameState.isGameOver /\ gameState'.isGameOver)
             => /\ frame'.op = "frame"
                /\ gameState.gamePhase = "flight"
                /\ frame'.ran = "flight"
                /\ frame'.hit]_vars

\* C12 witness: a flight frame has found a collision and set the game-over flag;
\* the session took off from the runway before.
C12_Witness ==
    /\ FlightPhaseFrame /\ frame.ran = "flight" /\ frame.hit
    /\ gameState.isGameOver
    /\ gameState.gamePhase = "flight"

\* C13: a key-down or key-up event changes nothing but the airplane's controls:
\* position, rotation, velocity, obstacles, score, phase, game-over flag and the
\* frame handle stay; a key that is not mapped leaves the controls too.
C13_KeysOnlyLatchIntent ==
    [][frame'.op \in {"keydown", "keyup"}
        => /\ airplane'.position = airplane.position
           /\ airplane'.rotation = airplane.rotation
           /\ airplane'.velocity = airplane.velocity
           /\ obstacles' = obstacles
           /\ gameState' = gameState
           /\ frameId' = frameId
           /\ \A code \in {"KeyP", "Enter", "ShiftLeft"} : \A value \in BOOLEAN :
                  HandleKey(airplane.controls, code, value) = airplane.controls]_vars

\* C13 witness: a key went down while the airplane was rolling, after the phase
\* had changed and with obstacles active, and the roll-left intent is latched.
C13_Witness ==
    /\ frame.op = "keydown"
    /\ airplane.controls.left
    /\ airplane.velocity.z < 0
    /\ gameState.gamePhase = "flight"
    /\ Len(obstacles) > 0

\* C14: a call of animate with the scene, the camera, the renderer or the
\* airplane absent changes neither the airplane, the obstacles nor the game
\* state, and registers the next frame request.
C14_MissingCollaboratorSkipsFrame ==
    [][(frame'.op = "frame" /\ ~(Collaborators \subseteq life.refs))
        => /\ airplane' = airplane
           /\ obstacles' = obstacles
           /\ gameState' = gameState
           /\ rng' = rng
           /\ frame'.ran = "none"
           /\ frameId' = frameId + 1
           /\ life'.scheduled]_vars

\* C14 witness: the camera is absent and the throttle is held; two calls of
\* animate have left the airplane at rest and the next call is due.
C14_Witness ==
    /\ frame.op = "frame"
    /\ "airplane" \in life.refs /\ "camera" \notin life.refs
    /\ airplane.controls.boost
    /\ airplane = [NewAirplane EXCEPT !.controls.boost = TRUE]
    /\ gameState = InitialGameState
    /\ frameId >= 2
    /\ life.scheduled

\* C15: the effect cleanup cancels the frame request before it disposes of the
\* obstacles, the airplane and the environment, it leaves no call of animate
\* due, and once it has run no frame executes.
C15_TeardownStopsLoop ==
    [][/\ life'.log # << >>
             => /\ ~life'.scheduled
                /\ \E i \in 1..Len(life'.log) :
                       /\ life'.log[i] = "cancelAnimationFrame"
                       /\ \A j \in 1..Len(life'.log) :
                              life'.log[j] \in {"disposeObstacles", "disposeAirplane",
                                                "disposeEnvironment"}
                                  => i < j
       /\ life.log # << >>
             => (frameId' = frameId /\ frame'.op # "frame")]_vars

\* C15 witness: the component unmounted after takeoff, with obstacles active and
\* the throttle held; the obstacles, the airplane and the environment are disposed of.
C15_Witness ==
    /\ frame.op = "unmount"
    /\ gameState.gamePhase = "flight"
    /\ Len(obstacles) > 0
    /\ airplane.controls.boost
    /\ \A r \in {"disposeObstacles", "disposeAirplane", "disposeEnvironment"} :
           \E i \in 1..Len(life.log) : life.log[i] = r

\* C16: a frame that runs a handler runs the one of the session's current phase:
\* the takeoff handler in the takeoff phase, the flight handler in the flight phase.
C16_UpdateSelectedByPhase ==
    (frame.op = "frame" /\ frame.ran # "none") => frame.ran = frame.phase

\* step a comes before step b in the last frame
StepBefore(a, b) ==
    \E i, j \in 1..Len(frame.steps) :
        i < j /\ frame.steps[i] = a /\ frame.steps[j] = b

C18_DeltaTimeWithinCap ==
    frame.op = "frame" => (0 <= frame.dt /\ frame.dt <= Unit \div 10)

\* C18 witness: animate was called a second after the previous call and the
\* rolling airplane was updated with a deltaTime of 0.1 s.
C18_Witness ==
    /\ frame.op = "frame" /\ frame.ran = "takeoff"
    /\ frame.gap = 1 * Unit
    /\ frame.dt = Unit \div 10
    /\ airplane.velocity.z < 0

\* the obstacle o lies laterally in [-30, 30], at an altitude in [10, 30], and
\* between near and far ahead of (at more negative z than) the position p
ObstacleAhead(o, p, near, far) ==
    /\ -(30 * Unit) <= o.position.x /\ o.position.x <= 30 * Unit
    /\ 10 * Unit <= o.position.y /\ o.position.y <= 30 * Unit
    /\ p.z - far * Unit <= o.position.z /\ o.position.z <= p.z - near * Unit

\* C19: the frame that takes the session from takeoff to flight leaves exactly 5
\* obstacles, each 100 to 200 ahead of the airplane, and no other frame spawns
\* such a batch: a frame that makes no transition adds at most one obstacle.
C19_FiveObstaclesOncePerTransition ==
    [][frame'.op = "frame"
        => IF gameState.gamePhase = "takeoff" /\ gameState'.gamePhase = "flight"
           THEN /\ Len(obstacles') = 5
                /\ \A i \in 1..5 :
                       ObstacleAhead(obstacles'[i], airplane'.position, 100, 200)
           ELSE Len(obstacles') <= Len(obstacles) + 1]_vars

\* C20: an executed frame of the flight phase leaves the obstacles it did not
\* despawn, plus exactly one new obstacle 200 to 250 ahead of the airplane if
\* those are fewer than 5; a frame of the takeoff phase that makes no transition
\* leaves the obstacle set as it was.
C20_ReplenishOneWhenBelowFive ==
    [][(frame'.op = "frame" /\ ~gameState.isGameOver)
        => /\ gameState.gamePhase = "flight"
                 => IF Len(obstacles) - frame'.behind < 5
                    THEN /\ Len(obstacles') = Len(obstacles) - frame'.behind + 1
                         /\ ObstacleAhead(obstacles'[Len(obstacles')],
                                          airplane'.position, 200, 250)
                    ELSE Len(obstacles') = Len(obstacles) - frame'.behind
           /\ (gameState.gamePhase = "takeoff" /\ gameState'.gamePhase = "takeoff")
                 => obstacles' = obstacles]_vars

\* C21: every control flag is true exactly while a key bound to it is down:
\* with two keys bound to a control, the flag is true as long as at least one
\* of the two is held.
C21_FlagIffKeyDown ==
    \A c \in Intents : airplane.controls[c] = (KeysOf(c) \cap keys # {})

\* C22: the velocity is bounded by a cap that depends on the phase: while the
\* session is in the takeoff phase the forward speed is at most a fixed cap
\* (the largest speed constant, BOOST_SPEED) however long the throttle is
\* held, and after a flight update the speed is at most 50 with boost and 30
\* without (to the 1/60 of Length).
C22_SpeedWithinPhaseCap ==
    /\ gameState.gamePhase = "takeoff" => -airplane.velocity.z <= BOOST_SPEED
    /\ (frame.op = "frame" /\ frame.ran = "flight") =>
           Length(airplane.velocity)
               <= (IF airplane.controls.boost THEN BOOST_SPEED ELSE MAX_SPEED) + 60

\* the airplane as the last frame found it: the key listeners run between the
\* frames, so the controls the frame read are those it left
Before ==
    [position |-> frame.was.position, rotation |-> frame.was.rotation,
     velocity |-> frame.was.velocity, controls |-> airplane.controls]

\* the last step was a frame that ran the flight handler
FlightUpdateRan == frame.op = "frame" /\ frame.ran = "flight"

\* C23: the flight update has no inertia.  The velocity after a flight update
\* is direction(orientation) * targetSpeed, with targetSpeed 50 under boost and
\* 30 otherwise: it is determined by the orientation and the boost flag, so
\* that two states that agree on these and differ in their previous velocity
\* have the same velocity after one update; its magnitude is 30 or 50 (to
\* 0.05, the error of the fixed-point product and of Length).
C23_NoInertia ==
    FlightUpdateRan =>
        /\ airplane.velocity
               = FlightVelocity(Steer(Before, frame.dt), Before.controls.boost)
        /\ airplane.velocity
               = With(Direction(airplane.rotation), LAMBDA d :
                 With(IF airplane.controls.boost THEN 50 * Unit ELSE 30 * Unit, LAMBDA t :
                      Vec(Mul(d.x, t), Mul(d.y, t), Mul(d.z, t))))
        /\ Abs(Length(airplane.velocity)
                 - (IF airplane.controls.boost THEN 50 * Unit ELSE 30 * Unit))
               <= Unit \div 20

\* a flight update has run on an airplane that came in at more than 60, with
\* boost held and pitched up, and left it at 50
C23_Witness ==
    /\ FlightUpdateRan
    /\ Length(Before.velocity) > 60 * Unit
    /\ airplane.controls.boost
    /\ airplane.rotation.x < 0
    /\ Abs(Length(airplane.velocity) - 50 * Unit) <= Unit \div 20

\* the last step was a frame that ran the takeoff handler
TakeoffUpdateRan == frame.op = "frame" /\ frame.ran = "takeoff"

\* C24: the takeoff update changes the pitch only in a frame in which pitch-up
\* is held and the forward speed it has computed exceeds 10: the pitch then
\* decreases by 1 rad/s * deltaTime and stops at -45 degrees; at a speed of 10
\* or less the pitch is unchanged whatever is held.
C24_PitchUpNeedsSpeed ==
    TakeoffUpdateRan =>
        airplane.rotation.x
            = IF -airplane.velocity.z > 10 * Unit /\ Before.controls.up
              THEN Max(Before.rotation.x - frame.dt, -(Pi \div 4))
              ELSE Before.rotation.x

\* a takeoff update at a speed above 10 has taken the pitch to the limit, from
\* less than one step above it
C24_Witness ==
    /\ TakeoffUpdateRan
    /\ -airplane.velocity.z > 10 * Unit
    /\ Before.controls.up
    /\ Before.rotation.x > -(Pi \div 4)
    /\ Before.rotation.x - frame.dt < -(Pi \div 4)
    /\ airplane.rotation.x = -(Pi \div 4)

Idle == airplane.controls = NoControls

\* C26: with no control held the airplane decays toward idle and level.  A
\* takeoff update lowers a forward speed that is not zero, and a flight update
\* lowers the magnitude of a pitch that is not zero and of a roll that is not
\* zero (frames of some duration).
C26_DecaysWhenIdle ==
    /\ (TakeoffUpdateRan /\ Idle /\ frame.dt > 0 /\ Before.velocity.z < 0) =>
           -airplane.velocity.z < -Before.velocity.z
    /\ (FlightUpdateRan /\ Idle /\ frame.dt > 0 /\ Before.rotation.x # 0) =>
           Abs(airplane.rotation.x) < Abs(Before.rotation.x)
    /\ (FlightUpdateRan /\ Idle /\ frame.dt > 0 /\ Before.rotation.z # 0) =>
           Abs(airplane.rotation.z) < Abs(Before.rotation.z)

\* C26 (amended): with no control held, a takeoff update lowers the forward
\* speed by 5 per second until it is zero, and a flight update lowers the
\* magnitude of a roll that is not zero and leaves the pitch as it is.
C26_SpeedAndRollDecay ==
    /\ (TakeoffUpdateRan /\ Idle /\ frame.dt > 0 /\ Before.velocity.z < 0) =>
           -airplane.velocity.z = Max(-Before.velocity.z - Mul(5 * Unit, frame.dt), 0)
    /\ (FlightUpdateRan /\ Idle) =>
           airplane.rotation.x = Before.rotation.x
    /\ (FlightUpdateRan /\ Idle /\ frame.dt > 0 /\ Before.rotation.z # 0) =>
           Abs(airplane.rotation.z) < Abs(Before.rotation.z)

\* a flight update with no control held has found the airplane pitched and
\* rolled, and has left it pitched as before and rolled less
C26_Witness ==
    /\ FlightUpdateRan /\ Idle /\ frame.dt > 0
    /\ Before.rotation.x # 0 /\ Before.rotation.z # 0
    /\ airplane.rotation.x = Before.rotation.x
    /\ Abs(airplane.rotation.z) < Abs(Before.rotation.z)

\* C27: the bank smoothing is independent of the roll state: the interpolation
\* that ends the flight update does not change the roll angle from which the
\* next frame integrates the roll controls and applies the limit of 45
\* degrees, so that after a flight update rotation.z is the roll that the
\* update has integrated and limited.
C27_SmoothingLeavesRoll ==
    FlightUpdateRan => airplane.rotation.z = Steer(Before, frame.dt).z

\* C28: after every executed frame the camera is a function of the airplane's
\* pose and of the phase the session was in during the frame: in the takeoff
\* phase it is at the airplane's position + (0, 3, 15) and looks at the
\* airplane; in the flight phase it is at the position + (0, 5, 15) turned by
\* the airplane's orientation and looks at the position + (0, 0, -10) turned
\* likewise.
C28_CameraFollowsPhase ==
    (frame.op = "frame" /\ frame.ran # "none") =>
        camera = IF frame.phase = "takeoff"
                 THEN [position |-> Vec(airplane.position.x,
                                        airplane.position.y + 3 * Unit,
                                        airplane.position.z + 15 * Unit),
                       target |-> airplane.position]
                 ELSE With(ApplyRotation(Vec(0, 5 * Unit, 15 * Unit), airplane.rotation),
                           LAMBDA off :
                      With(ApplyRotation(Vec(0, 0, -10 * Unit), airplane.rotation),
                           LAMBDA ahead :
                          [position |-> Vec(airplane.position.x + off.x,
                                            airplane.position.y + off.y,
                                            airplane.position.z + off.z),
                           target |-> Vec(airplane.position.x + ahead.x,
                                          airplane.position.y + ahead.y,
                                          airplane.position.z + ahead.z)]))

\* C29: an obstacle's position does not change between its creation and its
\* removal, and an obstacle leaves the active set only by the despawn of the
\* flight handler or by a restart: in every step the obstacles that stay are
\* the old ones, unchanged and in their order (all of them, or those not more
\* than 50 behind the airplane after a flight update, or none after a
\* restart), and the others are new.
C29_ObstaclesStayPut ==
    [][LET kept == IF frame'.op = "restart" THEN << >>
                   ELSE IF frame'.op = "frame" /\ frame'.ran = "flight"
                        THEN SelectSeq(obstacles,
                                 LAMBDA o : ~(o.position.z
                                                > airplane'.position.z + 50 * Unit))
                        ELSE obstacles
       IN  /\ Len(obstacles') >= Len(kept)
           /\ SubSeq(obstacles', 1, Len(kept)) = kept]_vars

\* a flight update has run with obstacles active, has despawned some of them
\* and has kept others
C29_Witness ==
    /\ FlightUpdateRan
    /\ frame.behind > 0
    /\ Len(obstacles) >= 4

C31_ScoreSampledEvery60 ==
    [][frame'.op = "frame" =>
          gameState'.score
              = IF /\ gameState.gamePhase = "flight"
                   /\ ~gameState.isGameOver
                   /\ frameId % 60 = 0
                THEN Abs(airplane'.position.z) \div (10 * Unit)
                ELSE gameState.score]_vars

\* C32: obstacle resources are released exactly once.  In every step the
\* obstacles that leave the active set (those more than 50 behind after a
\* flight update, all of them at a restart) are the ones disposed in that
\* step, in their order, and the teardown disposes the active ones; after the
\* step the meshes in the scene are those of the active obstacles, and the
\* dispose calls number the obstacles constructed less the active ones before
\* teardown, and the obstacles constructed after it: none is disposed twice
\* and none is disposed while active.
C32_ReleasedExactlyOnce ==
    [][LET gone == IF frame'.op = "restart" \/ frame'.op = "unmount" THEN obstacles
                   ELSE IF frame'.op = "frame" /\ frame'.ran = "flight"
                        THEN SelectSeq(obstacles,
                                 LAMBDA o : o.position.z
                                              > airplane'.position.z + 50 * Unit)
                        ELSE << >>
       IN  /\ resources'.disposed = resources.disposed \o gone
           /\ resources'.scene = obstacles'
           /\ Len(resources'.disposed)
                  = resources'.made
                      - (IF life'.log = << >> THEN Len(obstacles') ELSE 0)]_vars

\* a flight update has despawned and disposed obstacles and kept others, after
\* an earlier step that has disposed obstacles too
C32_Witness ==
    /\ FlightUpdateRan
    /\ frame.behind > 0
    /\ Len(obstacles) >= 4
    /\ Len(resources.disposed) > frame.behind
    /\ resources.scene = obstacles

C34_RestartKeepsControls ==
    [][(frame'.op = "restart" \/ (frame.op = "restart" /\ frame'.op = "frame")) =>
          airplane'.controls = airplane.controls]_vars

\* the first frame after a restart has found the airplane at the start of the
\* runway, at rest, with the throttle still held, and has set it rolling
C34_Witness ==
    /\ TakeoffUpdateRan
    /\ frameId - 1 \in RestartFrames
    /\ Before.position = StartPosition
    /\ Before.velocity = ZeroVector
    /\ airplane.controls.boost
    /\ airplane.velocity.z < 0

C36_TakeoffReachable ==
    /\ (frameId = 1 /\ airplane.controls.boost /\ airplane.controls.up)
           ~> (gameState.gamePhase = "flight"
                 /\ airplane.position.z < -(50 * Unit) /\ airplane.position.y > 5 * Unit)
    /\ [](frameId >= 1 /\ ~airplane.controls.up =>
             /\ gameState.gamePhase = "takeoff"
             /\ airplane.rotation.x = 0
             /\ airplane.position.y = Unit \div 2)

\* throttle and pitch-up have been held since the first frame, and the frame
\* that has just run has met the takeoff condition for the first time
C36_Witness ==
    /\ TakeoffUpdateRan
    /\ airplane.controls.boost /\ airplane.controls.up
    /\ frame.phase = "takeoff"
    /\ gameState.gamePhase = "flight"
    /\ Len(obstacles) = 5
    /\ frame.dt = Unit \div 60

\* C37: in the takeoff update the down, left and right controls have no
\* effect.  A takeoff update leaves roll, yaw and the lateral position as they
\* were and does not raise the pitch, and it leaves the airplane as it would
\* with the three controls let go; in the takeoff phase the airplane is on the
\* centre line (x = 0) with yaw PI and roll 0.
C37_TaxiIgnoresDownLeftRight ==
    /\ TakeoffUpdateRan =>
           /\ airplane.rotation.y = Before.rotation.y
           /\ airplane.rotation.z = Before.rotation.z
           /\ airplane.position.x = Before.position.x
           /\ airplane.rotation.x <= Before.rotation.x
           /\ Pose(airplane)
                  = Pose(UpdateTakeoff([Before EXCEPT !.controls.down = FALSE,
                                                      !.controls.left = FALSE,
                                                      !.controls.right = FALSE],
                                       frame.dt))
    /\ gameState.gamePhase = "takeoff" =>
           /\ airplane.position.x = 0
           /\ airplane.rotation.y = Pi
           /\ airplane.rotation.z = 0

\* a takeoff update has run above speed 10 with down, left and right held and
\* pitch-up let go, on an airplane that was pitched up already
C37_Witness ==
    /\ TakeoffUpdateRan
    /\ airplane.controls.down /\ airplane.controls.left /\ airplane.controls.right
    /\ ~airplane.controls.up
    /\ -airplane.velocity.z > 10 * Unit
    /\ Before.rotation.x < 0
    /\ airplane.rotation = Before.rotation

\* C38: after the StatsMonitor cleanup has run, updateFPS is never invoked
\* again: no step of an unmounted component is a call of updateFPS, and no
\* frame request of an unmounted component is pending.
C38_NoFpsCallbackAfterCleanup ==
    ~stats.mounted => stats.op # "updateFPS" /\ stats.requests = {}

\* C39: with alwaysVisible false, a mousemove or keydown leaves the box visible
\* with exactly one timer pending, due visibilityDuration later, and at most
\* one timer is pending at any time; the mounted box is visible before
\* visibilityDuration has passed since the last event (or the mount), is hidden
\* after it, and the hiding step happens at exactly that time; a pending
\* timer leads to the hidden box unless the component is unmounted.  With
\* alwaysVisible true the box is always visible and no timer is pending.
\* After the unmount no timer is pending and none fires.
C39_HidesAfterLastEvent ==
    /\ [](/\ Cardinality(box.timers) <= 1
          /\ (box.op \in {"mousemove", "keydown"} /\ ~box.alwaysVisible) =>
                 /\ box.visible
                 /\ box.timers = {[id |-> box.timeout,
                                   due |-> box.now + visibilityDuration]}
          /\ (box.mounted /\ ~box.alwaysVisible) =>
                 /\ box.visible => box.now <= box.shown + visibilityDuration
                 /\ ~box.visible => box.now >= box.shown + visibilityDuration
                 /\ box.op = "hide" => box.now = box.shown + visibilityDuration
                 /\ box.visible <=> box.timers # {}
          /\ box.alwaysVisible => box.visible /\ box.timers = {}
          /\ ~box.mounted => box.timers = {} /\ box.op # "hide")
    /\ (box.mounted /\ ~box.alwaysVisible /\ box.visible)
          ~> (~box.visible \/ ~box.mounted)

\* the box has just turned hidden, visibilityDuration after the second of two
\* events that each restarted the timer
C39_Witness ==
    /\ ~box.alwaysVisible /\ box.mounted
    /\ box.op = "hide" /\ ~box.visible
    /\ box.events >= 2
    /\ box.shown >= 2 * BoxTick
    /\ box.now = box.shown + visibilityDuration

=============================================================================
